---- MODULE Spec2Model ----
(***************************************************************************)
(* langacore.kit.django.tags.models: the tag / stem engine.                *)
(*                                                                         *)
(* The store holds two tables, TagStem rows and Tag rows.  Tag.save keeps  *)
(* the stem of a tag and the stems' tag_count up to date, the post_delete  *)
(* handler clean_stems decrements the stem of a deleted tag, and the       *)
(* TaggableBase facade (tag, untag, untag_all, similar_objects) works on   *)
(* the tags of one entity.                                                 *)
(*                                                                         *)
(* Nine specifications share the definitions:                              *)
(*   Spec          one client calling tag, untag and untag_all with every  *)
(*                 kind of argument;                                       *)
(*   SpecHeld      a client that keeps one Tag instance in memory between  *)
(*                 operations (its cached stem can go stale);              *)
(*   SpecOfficial  saves under changing authors and staff privileges;      *)
(*   SpecConc      several processes saving and deleting tags, one         *)
(*                 statement on the store per step;                        *)
(*   SpecSim       tagging with three names, and similar_objects;          *)
(*   SpecParse     the default-tags text parsed, joined and parsed again;  *)
(*   SpecDefault   Taggable.save synchronising the default tags;           *)
(*   SpecGone      a kept Tag instance saved after its row was deleted;    *)
(*   SpecRemove    Tag rows removed by untag, untag_all and the deletion   *)
(*                 of the tagged entity.                                   *)
(***************************************************************************)
EXTENDS Integers, Sequences, FiniteSets, TLC

VARIABLES
    stems,      \* the TagStem table: a set of rows [pk, name, language, tag_count]
    tags,       \* the Tag table: a set of rows [pk, name, language, author, official, ent, stem]
    staff,      \* the authors whose is_staff is set
    h,          \* the Tag instance the client holds in memory
    last,       \* the last operation: its arguments as resolved and its outcome
    procs       \* SpecConc: the position and the local objects of each process

vars == <<stems, tags, staff, h, last, procs>>

-----------------------------------------------------------------------------
(* Bounds *)

MaxStems == 2       \* rows of the TagStem table
MaxTags == 2        \* rows of the Tag table
MaxCount == 2       \* the largest tag_count written
MaxTextLen == 5     \* atoms of a text given to the parser alone

Names == {"x", "y"}
Langs == {"en", "pl"}
Authors == {"a1", "a2"}
\* an entity is (content type id, object id); the two share the object id
Entities == {[ct |-> 1, id |-> 1], [ct |-> 2, id |-> 1]}

\* tag-input texts, each the sequence of its atoms: "", "x", "y", "x,y" and
\* "y,x,y"
Texts == {<<>>, <<"x">>, <<"y">>, <<"x", ",", "y">>, <<"y", ",", "x", ",", "y">>}

-----------------------------------------------------------------------------
(* Values passed as author and language *)

None == "None"
Unresolvable == "Unresolvable"

\* An author is passed as [kind, ref]: kind "model" for an instance of the
\* author model, "userprofile" for a User whose profile is one, "hasuser" and
\* "hasprofile" for an object with a .user or a .profile of that type, "none"
\* for None and "other" for anything else.  A language is passed as [kind, v]:
\* kind "int", "choice", "none" or "other".

\* the Python value None, passed as an author or as a language
NoAuthor == [kind |-> "none", ref |-> None]
NoLang == [kind |-> "none", v |-> None]

\* _tag_get_user(author, default): the author, the default, or Unresolvable
\* where the code raises ValueError
_tag_get_user(author, default) ==
    IF author.kind \in {"model", "userprofile", "hasuser", "hasprofile"}
    THEN author.ref
    ELSE default

\* _tag_get_language(language, default)
_tag_get_language(language, default) ==
    IF language.kind = "int" THEN language.v
    ELSE IF language.kind = "choice" THEN language.v
    ELSE default

-----------------------------------------------------------------------------
(* The store.  A db is [stems, tags]: the two tables.  Operators take a db  *)
(* and return the db after the call.                                        *)

NullStem == [pk |-> 0, name |-> "", language |-> "", tag_count |-> 0]

\* the primary key the store gives an inserted row: one not in use, and
\* none of kept, the keys of deleted rows that an instance in memory still
\* refers to (the store does not give a key twice).  Which one is the
\* store's choice, and no operation depends on it; the least is taken
NewPk(rows, kept) ==
    LET used == {r.pk : r \in rows} \cup kept
    IN  CHOOSE k \in 1..(Cardinality(used) + 1) :
            /\ k \notin used
            /\ \A j \in 1..(k - 1) : j \in used

HasStem(db, pk) == \E s \in db.stems : s.pk = pk
StemRow(db, pk) == CHOOSE s \in db.stems : s.pk = pk

\* Model.save() of a TagStem object: UPDATE the row of its pk, INSERT it when
\* there is none
SaveStem(db, s) ==
    [db EXCEPT !.stems = {r \in @ : r.pk # s.pk} \cup {s}]

\* Model.delete() of a TagStem object: the row goes, and with it (ForeignKey
\* Tag.stem, no on_delete: cascade) every Tag row whose stem it is
DeleteStem(db, s) ==
    [db EXCEPT !.stems = {r \in @ : r.pk # s.pk},
               !.tags = {t \in @ : t.stem # s.pk}]

\* inc_count without its self.save()
inc_count_unsaved(db, s) == db

\* TagStem.inc_count, on the in-memory object s
inc_count(db, s) ==
    SaveStem(db, [s EXCEPT !.tag_count = @ + 1])

\* TagStem.dec_count, on the in-memory object s
dec_count(db, s) ==
    IF s.tag_count > 1
    THEN SaveStem(db, [s EXCEPT !.tag_count = @ - 1])
    ELSE DeleteStem(db, s)

\* TagStem.objects.get_or_create(name=, language=): [err, db, stem]
get_or_create(db, name, language) ==
    LET m == {s \in db.stems : s.name = name /\ s.language = language}
        new == [pk |-> NewPk(db.stems, db.kept_stems), name |-> name, language |-> language,
                tag_count |-> 0]
    IN  IF Cardinality(m) > 1
        THEN [err |-> "MultipleObjectsReturned", db |-> db, stem |-> NullStem]
        ELSE IF m # {}
        THEN [err |-> "", db |-> db, stem |-> CHOOSE s \in m : TRUE]
        ELSE [err |-> "",
              db |-> [db EXCEPT !.stems = @ \cup {new}],
              stem |-> new]

-----------------------------------------------------------------------------
(* Tag instances.  An instance is [pk, name, language, author, official,    *)
(* ent, stem]; pk = 0 before the first save.  Its stem field is the cache   *)
(* of the related object: [k |-> "none"] for stem_id NULL, "lazy" for a     *)
(* stem_id not fetched yet (s.pk is the id), "obj" for a fetched object,    *)
(* which keeps the tag_count it had when fetched or last written.           *)

NoStemCache == [k |-> "none", s |-> NullStem]
LazyStem(pk) == [k |-> "lazy", s |-> [NullStem EXCEPT !.pk = pk]]
StemObj(s) == [k |-> "obj", s |-> s]

NoInstance == [pk |-> 0, name |-> "", language |-> "", author |-> None,
               official |-> FALSE, ent |-> [ct |-> 0, id |-> 0],
               stem |-> NoStemCache]

\* Tag(name=, language=, author=, content_object=): a new unsaved instance
NewTag(name, language, author, official, ent) ==
    [pk |-> 0, name |-> name, language |-> language, author |-> author,
     official |-> official, ent |-> ent, stem |-> NoStemCache]

\* an instance as a query returns it: the stem is not fetched
Loaded(row) ==
    [pk |-> row.pk, name |-> row.name, language |-> row.language,
     author |-> row.author, official |-> row.official, ent |-> row.ent,
     stem |-> IF row.stem = 0 THEN NoStemCache ELSE LazyStem(row.stem)]

\* the Tag row an instance is written as
RowOf(inst, pk) ==
    [pk |-> pk, name |-> inst.name, language |-> inst.language,
     author |-> inst.author, official |-> inst.official, ent |-> inst.ent,
     stem |-> inst.stem.s.pk]

\* reading self.stem: the cached object, or the row fetched now;
\* TagStem.DoesNotExist when the row of a lazy stem_id is gone
stem_of(db, inst) ==
    IF inst.stem.k = "lazy"
    THEN IF HasStem(db, inst.stem.s.pk)
         THEN [err |-> "", c |-> StemObj(StemRow(db, inst.stem.s.pk))]
         ELSE [err |-> "DoesNotExist", c |-> inst.stem]
    ELSE [err |-> "", c |-> inst.stem]

\* update_stem resolving the stem on the first save only
update_stem_once(db, inst) ==
    LET g == get_or_create(db, inst.name, inst.language)
        cur == stem_of(db, inst)
    IN  IF inst.stem.k # "none"
        THEN [err |-> cur.err, db |-> db, inst |-> [inst EXCEPT !.stem = cur.c]]
        ELSE IF g.err # ""
        THEN [err |-> g.err, db |-> db, inst |-> inst]
        ELSE [err |-> "", db |-> inc_count(g.db, g.stem),
              inst |-> [inst EXCEPT
                          !.stem = StemObj([g.stem EXCEPT !.tag_count = @ + 1])]]

\* update_stem without the comparison of the resolved stem with self.stem
update_stem_uncompared(db, inst) ==
    LET g == get_or_create(db, inst.name, inst.language)
        cur == stem_of(g.db, inst)
        d1 == IF cur.c.k = "obj" THEN dec_count(g.db, cur.c.s) ELSE g.db
    IN  IF g.err # ""
        THEN [err |-> g.err, db |-> db, inst |-> inst]
        ELSE IF cur.err # ""
        THEN [err |-> cur.err, db |-> g.db, inst |-> inst]
        ELSE [err |-> "", db |-> inc_count(d1, g.stem),
              inst |-> [inst EXCEPT
                          !.stem = StemObj([g.stem EXCEPT !.tag_count = @ + 1])]]

\* Tag.update_stem: [err, db, inst]
update_stem(db, inst) ==
    LET g == get_or_create(db, inst.name, inst.language)
        cur == stem_of(g.db, inst)
        d1 == IF cur.c.k = "obj" THEN dec_count(g.db, cur.c.s) ELSE g.db
    IN  IF g.err # ""
        THEN [err |-> g.err, db |-> db, inst |-> inst]
        ELSE IF cur.err # ""
        THEN [err |-> cur.err, db |-> g.db, inst |-> inst]
        ELSE IF cur.c.k = "obj" /\ cur.c.s.pk = g.stem.pk
        THEN [err |-> "", db |-> g.db, inst |-> [inst EXCEPT !.stem = cur.c]]
        ELSE [err |-> "", db |-> inc_count(d1, g.stem),
              inst |-> [inst EXCEPT
                          !.stem = StemObj([g.stem EXCEPT !.tag_count = @ + 1])]]

\* Tag.save: official from the author's is_staff, update_stem, then the row
\* is written (UPDATE of its pk, INSERT when there is none): [err, db, inst]
Tag_save(db, inst, st) ==
    LET i1 == [inst EXCEPT !.official = IF inst.author \in st THEN TRUE ELSE @]
        u == update_stem(db, i1)
        pk == IF inst.pk = 0 THEN NewPk(u.db.tags, u.db.kept_tags) ELSE inst.pk
    IN  IF u.err # ""
        THEN u
        ELSE [err |-> "",
              db |-> [u.db EXCEPT
                        !.tags = {t \in @ : t.pk # pk} \cup {RowOf(u.inst, pk)}],
              inst |-> [u.inst EXCEPT !.pk = pk]]

\* clean_stems, the post_delete handler: the stem of the deleted instance is
\* decremented; a stem-less instance or a vanished stem row is passed over
clean_stems(db, inst) ==
    LET cur == stem_of(db, inst)
    IN  IF cur.err # "" \/ cur.c.k # "obj" THEN db ELSE dec_count(db, cur.c.s)

\* Model.delete() of a Tag instance: the row goes, then post_delete fires
Tag_delete(db, inst) ==
    clean_stems([db EXCEPT !.tags = {t \in @ : t.pk # inst.pk}], inst)

-----------------------------------------------------------------------------
(* The TaggableBase facade *)

Range(f) == {f[i] : i \in DOMAIN f}

RECURSIVE Distinct(_, _)
Distinct(seq, seen) ==
    IF seq = <<>> THEN <<>>
    ELSE IF Head(seq) \in seen THEN Distinct(Tail(seq), seen)
    ELSE <<Head(seq)>> \o Distinct(Tail(seq), seen \cup {Head(seq)})

\* A text is the sequence of its atoms: a comma, a space, a double quote, or
\* a run of other characters.
Comma == ","
Space == " "
Quote == "\""

\* the string the atoms spell
RECURSIVE Str(_)
Str(atoms) == IF atoms = <<>> THEN "" ELSE Head(atoms) \o Str(Tail(atoms))

\* the text cut at every atom d, cur being the piece begun
RECURSIVE SplitOn(_, _, _)
SplitOn(raw, d, cur) ==
    IF raw = <<>> THEN <<cur>>
    ELSE IF Head(raw) = d THEN <<cur>> \o SplitOn(Tail(raw), d, <<>>)
    ELSE SplitOn(Tail(raw), d, Append(cur, Head(raw)))

\* inside double quotes: a closing quote follows (a doubled quote is none)
RECURSIVE Closes(_)
Closes(raw) ==
    IF raw = <<>> THEN FALSE
    ELSE IF Head(raw) # Quote THEN Closes(Tail(raw))
    ELSE IF Len(raw) >= 2 /\ raw[2] = Quote THEN Closes(Tail(Tail(raw)))
    ELSE TRUE

\* the text cut at every comma outside double quotes; the quotes that wrap
\* are dropped, a doubled quote inside them is one quote, and a quote that
\* is never closed stands for itself
RECURSIVE SplitQuoted(_, _, _)
SplitQuoted(raw, cur, inq) ==
    IF raw = <<>> THEN <<cur>>
    ELSE IF inq
    THEN IF Head(raw) # Quote
         THEN SplitQuoted(Tail(raw), Append(cur, Head(raw)), TRUE)
         ELSE IF Len(raw) >= 2 /\ raw[2] = Quote
         THEN SplitQuoted(Tail(Tail(raw)), Append(cur, Quote), TRUE)
         ELSE SplitQuoted(Tail(raw), cur, FALSE)
    ELSE IF Head(raw) = Comma THEN <<cur>> \o SplitQuoted(Tail(raw), <<>>, FALSE)
    ELSE IF Head(raw) = Quote /\ Closes(Tail(raw))
    THEN SplitQuoted(Tail(raw), cur, TRUE)
    ELSE SplitQuoted(Tail(raw), Append(cur, Head(raw)), FALSE)

\* leading and trailing spaces removed
RECURSIVE Trim(_)
Trim(f) ==
    IF f = <<>> THEN f
    ELSE IF Head(f) = Space THEN Trim(Tail(f))
    ELSE IF f[Len(f)] = Space THEN Trim(SubSeq(f, 1, Len(f) - 1))
    ELSE f

\* the names written in the text, trimmed, the empty ones left out: cut at
\* spaces when the text has no comma, at commas otherwise
Fields(raw) ==
    LET cut == IF \E i \in DOMAIN raw : raw[i] = Comma
               THEN SplitQuoted(raw, <<>>, FALSE)
               ELSE SplitOn(raw, Space, <<>>)
    IN  SelectSeq([i \in DOMAIN cut |-> Trim(cut[i])], LAMBDA f : f # <<>>)

\* helpers.parse_tag_input: the distinct names of the text, first seen first
parse_tag_input(text) ==
    LET fs == Fields(text)
    IN  Distinct([i \in DOMAIN fs |-> Str(fs[i])], {})

\* the loop of TaggableBase.tag: one new Tag saved for each name; an
\* exception leaves the loop with what was written so far: [err, db]
RECURSIVE tag_each(_, _, _, _, _, _)
tag_each(db, ent, names, language, author, st) ==
    IF names = <<>> THEN [err |-> "", db |-> db]
    ELSE LET r == Tag_save(db, NewTag(Head(names), language, author, FALSE, ent), st)
         IN  IF r.err # "" THEN [err |-> r.err, db |-> r.db]
             ELSE tag_each(r.db, ent, Tail(names), language, author, st)

\* tag with the language resolved like untag_all resolves it, with a default
tag_default_language(db, ent, name, language, author, st) ==
    LET a == _tag_get_user(author, Unresolvable)
        l == _tag_get_language(language, "en")
    IN  IF a = Unresolvable
        THEN [err |-> "ValueError", db |-> db]
        ELSE tag_each(db, ent, parse_tag_input(name), l, a, st)

\* TaggableBase.tag(name, language, author): [err, db]
tag(db, ent, name, language, author, st) ==
    LET a == _tag_get_user(author, Unresolvable)
        l == _tag_get_language(language, Unresolvable)
    IN  IF a = Unresolvable \/ l = Unresolvable
        THEN [err |-> "ValueError", db |-> db]
        ELSE tag_each(db, ent, parse_tag_input(name), l, a, st)

\* the loop of TaggableBase.untag: Tag.objects.get(...) and delete for each
\* name; DoesNotExist is passed over, MultipleObjectsReturned is not caught
RECURSIVE untag_each(_, _, _, _, _)
untag_each(db, ent, names, language, author) ==
    LET m == {t \in db.tags : /\ t.name = Head(names)
                              /\ t.language = language
                              /\ t.author = author
                              /\ t.ent = ent}
    IN  IF names = <<>> THEN [err |-> "", db |-> db]
        ELSE IF Cardinality(m) > 1
        THEN [err |-> "MultipleObjectsReturned", db |-> db]
        ELSE IF m = {}
        THEN untag_each(db, ent, Tail(names), language, author)
        ELSE untag_each(Tag_delete(db, Loaded(CHOOSE t \in m : TRUE)),
                        ent, Tail(names), language, author)

\* TaggableBase.untag(name, language, author): [err, db]
untag(db, ent, name, language, author) ==
    LET a == _tag_get_user(author, Unresolvable)
        l == _tag_get_language(language, Unresolvable)
    IN  IF a = Unresolvable \/ l = Unresolvable
        THEN [err |-> "ValueError", db |-> db]
        ELSE untag_each(db, ent, parse_tag_input(name), l, a)

\* QuerySet.delete(), after the rows are gone: post_delete for each instance
RECURSIVE post_delete_each(_, _)
post_delete_each(db, rows) ==
    IF rows = {} THEN db
    ELSE LET t == CHOOSE r \in rows : TRUE
         IN  post_delete_each(clean_stems(db, Loaded(t)), rows \ {t})

\* the Tag rows TaggableBase.untag_all filters; name is [kind |-> "none"] or
\* [kind |-> "text", t |-> the text]
untag_all_filter(db, ent, name, language, author) ==
    LET a == _tag_get_user(author, None)
        l == _tag_get_language(language, None)
    IN  {t \in db.tags :
            /\ t.ent = ent
            /\ name.kind # "none" => t.name \in Range(parse_tag_input(name.t))
            /\ l # None => t.language = l
            /\ a # None => t.author = a}

\* TaggableBase.untag_all(name=None, language=None, author=None): [err, db]
untag_all(db, ent, name, language, author) ==
    LET m == untag_all_filter(db, ent, name, language, author)
    IN  [err |-> "", db |-> post_delete_each([db EXCEPT !.tags = @ \ m], m)]

-----------------------------------------------------------------------------
(* Whole operations of one client.  An operation leaves its arguments (as   *)
(* resolved) and its outcome in last; Proceed is the client going on.       *)

\* the two tables, with the keys the client's instance refers to
Db == [stems |-> stems, tags |-> tags,
       kept_stems |-> {h.stem.s.pk}, kept_tags |-> {h.pk}]

\* the store after an operation; the tables stay within the bounds
Store(db) ==
    /\ Cardinality(db.stems) <= MaxStems
    /\ Cardinality(db.tags) <= MaxTags
    /\ \A s \in db.stems : s.tag_count <= MaxCount
    /\ stems' = db.stems
    /\ tags' = db.tags

\* an author or a language as the caller supplied it: None when omitted,
\* Unresolvable when no branch of the resolver takes it
SuppliedAuthor(author) ==
    IF author.kind = "none" THEN None ELSE _tag_get_user(author, Unresolvable)
SuppliedLang(language) ==
    IF language.kind = "none" THEN None ELSE _tag_get_language(language, Unresolvable)

NoEnt == [ct |-> 0, id |-> 0]
NoOp == [op |-> "", ent |-> NoEnt, nk |-> "none", names |-> <<>>,
         language |-> None, author |-> None, res |-> "", pk |-> 0,
         chg |-> FALSE, same_type |-> FALSE, official |-> FALSE, out |-> <<>>,
         text |-> <<>>, removed |-> 0]

Result(err) == IF err = "" THEN "ok" ELSE err

\* the held instance is used while its row exists; once the row is gone the
\* client has nothing left to save or delete through it
Held(inst, db) ==
    IF \E t \in db.tags : t.pk = inst.pk THEN inst ELSE NoInstance

ProcsInit == [p \in {} |-> 0]

Init ==
    /\ stems = {}
    /\ tags = {}
    /\ staff = {"a1"}
    /\ h = NoInstance
    /\ last = NoOp
    /\ procs = ProcsInit

\* ent.tag(name, language, author)
CallTag(ent, name, language, author) ==
    LET r == tag(Db, ent, name, language, author, staff)
    IN  /\ last = NoOp
        /\ Store(r.db)
        /\ h' = Held(h, r.db)
        /\ last' = [NoOp EXCEPT !.op = "tag", !.ent = ent, !.nk = "text",
                                !.names = parse_tag_input(name),
                                !.language = SuppliedLang(language),
                                !.author = SuppliedAuthor(author),
                                !.res = Result(r.err)]
        /\ UNCHANGED <<staff, procs>>

\* ent.untag(name, language, author)
CallUntag(ent, name, language, author) ==
    LET r == untag(Db, ent, name, language, author)
    IN  /\ last = NoOp
        /\ Store(r.db)
        /\ h' = Held(h, r.db)
        /\ last' = [NoOp EXCEPT !.op = "untag", !.ent = ent, !.nk = "text",
                                !.names = parse_tag_input(name),
                                !.language = SuppliedLang(language),
                                !.author = SuppliedAuthor(author),
                                !.res = Result(r.err)]
        /\ UNCHANGED <<staff, procs>>

\* ent.untag_all(name, language, author), each argument possibly omitted
CallUntagAll(ent, name, language, author) ==
    LET r == untag_all(Db, ent, name, language, author)
    IN  /\ last = NoOp
        /\ Store(r.db)
        /\ h' = Held(h, r.db)
        /\ last' = [NoOp EXCEPT !.op = "untag_all", !.ent = ent,
                                !.nk = name.kind,
                                !.names = IF name.kind = "none" THEN <<>>
                                          ELSE parse_tag_input(name.t),
                                !.language = SuppliedLang(language),
                                !.author = SuppliedAuthor(author),
                                !.res = Result(r.err)]
        /\ UNCHANGED <<staff, procs>>

\* t = Tag(name=, language=, author=, content_object=); t.official = official;
\* t.save(); the client keeps t
CreateTag(name, language, author, official, ent) ==
    LET r == Tag_save(Db, NewTag(name, language, author, official, ent), staff)
    IN  /\ last = NoOp
        /\ Store(r.db)
        /\ h' = Held(r.inst, r.db)
        /\ last' = [NoOp EXCEPT !.op = "Tag.save", !.ent = ent,
                                !.names = <<name>>, !.language = language,
                                !.author = author, !.res = Result(r.err),
                                !.pk = r.inst.pk]
        /\ UNCHANGED <<staff, procs>>

\* t = Tag.objects.get(pk=pk); the client keeps t
GetTag(pk) ==
    /\ last = NoOp
    /\ \E t \in tags : t.pk = pk /\ h' = Loaded(t)
    /\ last' = [NoOp EXCEPT !.op = "Tag.objects.get", !.pk = pk, !.res = "ok"]
    /\ UNCHANGED <<stems, tags, staff, procs>>

\* the held instance is edited (or not) and saved
SaveHeld(name, language, author, official) ==
    LET i1 == [h EXCEPT !.name = name, !.language = language,
                        !.author = author, !.official = official]
        r == Tag_save(Db, i1, staff)
    IN  /\ last = NoOp
        /\ h # NoInstance
        /\ Store(r.db)
        /\ h' = Held(r.inst, r.db)
        /\ last' = [NoOp EXCEPT !.op = "Tag.save", !.ent = h.ent,
                                !.names = <<name>>, !.language = language,
                                !.author = author, !.res = Result(r.err),
                                !.pk = h.pk,
                                !.chg = (name # h.name \/ language # h.language)]
        /\ UNCHANGED <<staff, procs>>

\* the held instance is deleted
DeleteHeld ==
    LET db == Tag_delete(Db, h)
    IN  /\ last = NoOp
        /\ h # NoInstance
        /\ Store(db)
        /\ h' = NoInstance
        /\ last' = [NoOp EXCEPT !.op = "Tag.delete", !.ent = h.ent,
                                !.pk = h.pk, !.res = "ok"]
        /\ UNCHANGED <<staff, procs>>

\* an author gains or loses the staff privilege
SetStaff(a, b) ==
    /\ last = NoOp
    /\ staff' = IF b THEN staff \cup {a} ELSE staff \ {a}
    /\ staff' # staff
    /\ last' = [NoOp EXCEPT !.op = "is_staff", !.author = a, !.res = "ok"]
    /\ UNCHANGED <<stems, tags, h, procs>>

\* the client goes on to its next operation
Proceed ==
    /\ last # NoOp
    /\ last' = NoOp
    /\ UNCHANGED <<stems, tags, staff, h, procs>>

-----------------------------------------------------------------------------
(* Spec: the facade, called with every kind of argument *)

Author(a) == [kind |-> "model", ref |-> a]
HasUser(a) == [kind |-> "hasuser", ref |-> a]
OtherAuthor == [kind |-> "other", ref |-> None]
IntLang == [kind |-> "int", v |-> "en"]
ChoiceLang == [kind |-> "choice", v |-> "pl"]
OtherLang == [kind |-> "other", v |-> None]

\* arguments of tag and untag: every text in the first language by either
\* author, one text in the second language, and one text with each way of
\* passing an author or a language that does not resolve
FacadeArgs ==
    {<<t, IntLang, a>> : t \in Texts, a \in {Author("a1"), Author("a2"), HasUser("a2")}}
    \cup {<<(<<"x">>), ChoiceLang, Author("a1")>>}
    \cup {<<(<<"x", ",", "y">>), l, a>> : l \in {IntLang, OtherLang, NoLang},
                                     a \in {Author("a1"), OtherAuthor, NoAuthor}}

NoName == [kind |-> "none", t |-> <<>>]
Text(t) == [kind |-> "text", t |-> t]

Next ==
    \/ \E e \in Entities, x \in FacadeArgs : CallTag(e, x[1], x[2], x[3])
    \/ \E e \in Entities, x \in FacadeArgs : CallUntag(e, x[1], x[2], x[3])
    \/ \E e \in Entities, n \in {NoName, Text(<<>>), Text(<<"x">>)},
          l \in {IntLang, OtherLang, NoLang},
          a \in {Author("a2"), OtherAuthor, NoAuthor} :
          CallUntagAll(e, n, l, a)
    \/ Proceed

Spec == Init /\ [][Next]_vars

-----------------------------------------------------------------------------
(* SpecHeld: a client that keeps one Tag instance of one entity, among      *)
(* facade calls on the other entity, all by one author                      *)

HeldEnt == [ct |-> 1, id |-> 1]
OtherEnt == [ct |-> 2, id |-> 1]

HeldKeys == {<<"x", "en">>, <<"y", "en">>, <<"x", "pl">>}

NextHeld ==
    \/ \E k \in HeldKeys : CreateTag(k[1], k[2], "a1", FALSE, HeldEnt)
    \/ \E pk \in 1..MaxTags : GetTag(pk)
    \/ \E k \in HeldKeys : SaveHeld(k[1], k[2], h.author, h.official)
    \/ DeleteHeld
    \/ \E n \in Names : CallTag(OtherEnt, <<n>>, IntLang, Author("a1"))
    \/ \E n \in Names : CallUntag(OtherEnt, <<n>>, IntLang, Author("a1"))
    \/ Proceed

SpecHeld == Init /\ [][NextHeld]_vars

-----------------------------------------------------------------------------
(* SpecOfficial: saves of one tag name under changing authors, privileges   *)
(* and caller-set official flags                                            *)

NextOfficial ==
    \/ \E a \in Authors, o \in BOOLEAN : CreateTag("x", "en", a, o, HeldEnt)
    \/ \E pk \in 1..MaxTags : GetTag(pk)
    \/ \E a \in Authors, o \in BOOLEAN : SaveHeld(h.name, h.language, a, o)
    \/ \E a \in Authors, b \in BOOLEAN : SetStaff(a, b)
    \/ Proceed

SpecOfficial == Init /\ [][NextOfficial]_vars

-----------------------------------------------------------------------------
(* SpecConc: several processes, each saving one new Tag of one name or      *)
(* deleting one Tag, one statement on the store per step.  Nothing in the   *)
(* code opens a transaction or locks a row, so the statements of different  *)
(* processes interleave freely.  procs[p] is [pc, inst, stem, err]: the     *)
(* position of p, its Tag instance and the TagStem object it works on.      *)

NumProcs == 2       \* processes

Procs == 1..NumProcs

Idle == [pc |-> "idle", inst |-> NoInstance, stem |-> NullStem, err |-> ""]

\* the primary key of a row process p inserts: one the store never gave out
\* (the row there is before the processes start has key 1)
FreshPk(p) == 1 + p

EmptyDb == [stems |-> {}, tags |-> {}, kept_stems |-> {}, kept_tags |-> {}]

\* the store before the processes start: empty, or one entity tagged once
InitConc ==
    /\ \E db \in {EmptyDb,
                  tag(EmptyDb, [ct |-> 1, id |-> 1], <<"x">>,
                      [kind |-> "int", v |-> "en"],
                      [kind |-> "model", ref |-> "a1"], {"a1"}).db} :
          stems = db.stems /\ tags = db.tags
    /\ staff = {"a1"}
    /\ h = NoInstance
    /\ last = NoOp
    /\ procs = [p \in Procs |-> Idle]

\* p starts Tag(name="x", ...).save(): official is set from is_staff
BeginSave(p) ==
    /\ procs[p].pc = "idle"
    /\ procs' = [procs EXCEPT ![p].pc = "get_or_create",
                              ![p].inst = NewTag("x", "en", "a1", "a1" \in staff,
                                                 [ct |-> 1, id |-> 1])]
    /\ UNCHANGED <<stems, tags, staff, h, last>>

\* p fetches a Tag it is going to delete
BeginDelete(p) ==
    /\ procs[p].pc = "idle"
    /\ \E t \in tags :
          procs' = [procs EXCEPT ![p].pc = "delete", ![p].inst = Loaded(t)]
    /\ UNCHANGED <<stems, tags, staff, h, last>>

\* update_stem, get_or_create: the SELECT
GocGet(p) ==
    LET i == procs[p].inst
        m == {s \in stems : s.name = i.name /\ s.language = i.language}
    IN  /\ procs[p].pc = "get_or_create"
        /\ procs' = IF Cardinality(m) > 1
                    THEN [procs EXCEPT ![p].pc = "done",
                                       ![p].err = "MultipleObjectsReturned"]
                    ELSE IF m # {}
                    THEN [procs EXCEPT ![p].pc = "inc_count",
                                       ![p].stem = CHOOSE s \in m : TRUE]
                    ELSE [procs EXCEPT ![p].pc = "create"]
        /\ UNCHANGED <<stems, tags, staff, h, last>>

\* update_stem, get_or_create: the INSERT after a SELECT that found no row
GocCreate(p) ==
    LET i == procs[p].inst
        new == [pk |-> FreshPk(p), name |-> i.name, language |-> i.language,
                tag_count |-> 0]
    IN  /\ procs[p].pc = "create"
        /\ stems' = stems \cup {new}
        /\ procs' = [procs EXCEPT ![p].pc = "inc_count", ![p].stem = new]
        /\ UNCHANGED <<tags, staff, h, last>>

\* update_stem: self.stem = stem; self.stem.inc_count(), on the object read
\* by get_or_create
IncCount(p) ==
    LET s == procs[p].stem
    IN  /\ procs[p].pc = "inc_count"
        /\ stems' = inc_count(Db, s).stems
        /\ procs' = [procs EXCEPT
                       ![p].pc = "insert",
                       ![p].stem = [s EXCEPT !.tag_count = @ + 1],
                       ![p].inst = [@ EXCEPT !.stem =
                                      StemObj([s EXCEPT !.tag_count = @ + 1])]]
        /\ UNCHANGED <<tags, staff, h, last>>

\* Tag.save: the INSERT of the Tag row.  When the stem row is gone by now a
\* store that enforces the foreign key refuses the row, another writes it
InsertTag(p) ==
    /\ procs[p].pc = "insert"
    /\ \/ /\ tags' = tags \cup {RowOf(procs[p].inst, FreshPk(p))}
          /\ procs' = [procs EXCEPT ![p].pc = "done",
                                    ![p].inst = [@ EXCEPT !.pk = FreshPk(p)]]
       \/ /\ ~HasStem(Db, procs[p].stem.pk)
          /\ tags' = tags
          /\ procs' = [procs EXCEPT ![p].pc = "done",
                                    ![p].err = "IntegrityError"]
    /\ UNCHANGED <<stems, staff, h, last>>

\* Tag.delete: the DELETE of the Tag row
DeleteRow(p) ==
    /\ procs[p].pc = "delete"
    /\ tags' = {t \in tags : t.pk # procs[p].inst.pk}
    /\ procs' = [procs EXCEPT ![p].pc = "clean_stems"]
    /\ UNCHANGED <<stems, staff, h, last>>

\* clean_stems: instance.stem, the SELECT of the stem row
CleanGet(p) ==
    LET cur == stem_of(Db, procs[p].inst)
    IN  /\ procs[p].pc = "clean_stems"
        /\ procs' = IF cur.err # "" \/ cur.c.k # "obj"
                    THEN [procs EXCEPT ![p].pc = "done"]
                    ELSE [procs EXCEPT ![p].pc = "dec_count",
                                       ![p].stem = cur.c.s]
        /\ UNCHANGED <<stems, tags, staff, h, last>>

\* clean_stems: dec_count on the object read, its save() or delete()
DecCount(p) ==
    LET db == dec_count(Db, procs[p].stem)
    IN  /\ procs[p].pc = "dec_count"
        /\ stems' = db.stems
        /\ tags' = db.tags
        /\ procs' = [procs EXCEPT ![p].pc = "done"]
        /\ UNCHANGED <<staff, h, last>>

NextConc ==
    \E p \in Procs :
        \/ BeginSave(p)
        \/ BeginDelete(p)
        \/ GocGet(p)
        \/ GocCreate(p)
        \/ IncCount(p)
        \/ InsertTag(p)
        \/ DeleteRow(p)
        \/ CleanGet(p)
        \/ DecCount(p)

SpecConc == InitConc /\ [][NextConc]_vars

-----------------------------------------------------------------------------
(* SpecSim: entities of two types tagged with three names by a staff and a  *)
(* non-staff author, and similar_objects called on them                     *)

MaxSimTags == 4     \* rows of the Tag table in SpecSim

\* _tag_get_instance(instance, default): the value of an int, or the pk of
\* an object that has one.  A primary key is returned as the set that holds
\* it, and NoPk stands for None, so that the two compare
NoPk == {}
_tag_get_instance(instance, default) ==
    IF instance.kind = "int" THEN {instance.v}
    ELSE IF instance.kind = "haspk" THEN {instance.v}
    ELSE default

Obj(ent) == [kind |-> "haspk", v |-> ent.id]

\* TagStemManager.get_queryset_for_model(model, instance=, official=, author=,
\* language=): the distinct TagStem rows with a related Tag of that content
\* type that satisfies every condition given
get_queryset_for_model(db, ct, instance, official, author, language) ==
    LET a == _tag_get_user(author, None)
        l == _tag_get_language(language, None)
        i == _tag_get_instance(instance, NoPk)
    IN  {s \in db.stems :
            \E t \in db.tags :
                /\ t.stem = s.pk
                /\ t.ent.ct = ct
                /\ i # NoPk => t.ent.id \in i
                /\ official => t.official
                /\ a # None => t.author = a
                /\ l # None => t.language = l}

\* the Tag rows both get_all and get_for_contenttype start from
tags_filtered(db, official, author, language) ==
    LET a == _tag_get_user(author, None)
        l == _tag_get_language(language, None)
    IN  {t \in db.tags : /\ official => t.official
                         /\ a # None => t.author = a
                         /\ l # None => t.language = l}

\* TagStemManager.get_all(official=, author=, language=): the dictionary from
\* each tagged object to the set of its stems
get_all(db, official, author, language) ==
    [obj \in {t.ent : t \in tags_filtered(db, official, author, language)} |->
        get_queryset_for_model(db, obj.ct, Obj(obj), official, author, language)]

\* TagStemManager.get_for_contenttype(content_type, official=, author=,
\* language=)
get_for_contenttype(db, ct, official, author, language) ==
    [obj \in {t.ent : t \in {r \in tags_filtered(db, official, author, language) :
                               r.ent.ct = ct}} |->
        get_queryset_for_model(db, ct, Obj(obj), official, author, language)]

\* TagStemManager.get_for_model(model, official=, author=, language=)
get_for_model(db, model, official, author, language) ==
    get_for_contenttype(db, model, official, author, language)

\* the (object, distance) pairs similar_objects collects, the distance being
\* the number of stems the two objects have in common
similar_pairs_common(stms, self) ==
    {<<obj, Cardinality(stms[obj] \cap stms[self])>> :
        obj \in {o \in DOMAIN stms \ {self} : stms[o] \cap stms[self] # {}}}

\* the (object, distance) pairs similar_objects collects from the dictionary
\* stms, which has the key self
similar_pairs(stms, self) ==
    {<<obj, Cardinality((stms[obj] \ stms[self]) \cup (stms[self] \ stms[obj]))>> :
        obj \in {o \in DOMAIN stms \ {self} : stms[o] \cap stms[self] # {}}}

\* the pairs in any order, as the dictionary yields them
sorted_by_distance_unsorted(pairs) ==
    {q \in [1..Cardinality(pairs) -> pairs] :
        \A i, j \in DOMAIN q : i # j => q[i] # q[j]}

\* the lists a stable sort by distance can make of the pairs: the dictionary
\* yields them in any order, and pairs of equal distance keep that order
sorted_by_distance(pairs) ==
    {q \in [1..Cardinality(pairs) -> pairs] :
        /\ \A i, j \in DOMAIN q : i # j => q[i] # q[j]
        /\ \A i, j \in DOMAIN q : i < j => q[i][2] <= q[j][2]}

\* TaggableBase.similar_objects(same_type=, official=): [err, outs], outs the
\* lists it can return; KeyError when self is no key of the dictionary
similar_objects(db, self, same_type, official) ==
    LET stms == IF same_type
                THEN get_for_model(db, self.ct, official, NoAuthor, NoLang)
                ELSE get_all(db, official, NoAuthor, NoLang)
    IN  IF self \notin DOMAIN stms
        THEN [err |-> "KeyError", outs |-> {<<>>}]
        ELSE [err |-> "", outs |-> sorted_by_distance(similar_pairs(stms, self))]

\* ent.tag(name, language, author) in SpecSim
SimTag(ent, name, language, author) ==
    LET r == tag(Db, ent, name, language, author, staff)
    IN  /\ last = NoOp
        /\ Cardinality(r.db.tags) <= MaxSimTags
        /\ stems' = r.db.stems
        /\ tags' = r.db.tags
        /\ last' = [NoOp EXCEPT !.op = "tag", !.ent = ent, !.nk = "text",
                                !.names = parse_tag_input(name),
                                !.language = SuppliedLang(language),
                                !.author = SuppliedAuthor(author),
                                !.res = Result(r.err)]
        /\ UNCHANGED <<staff, h, procs>>

\* ent.similar_objects(same_type, official)
CallSimilar(ent, same_type, official) ==
    LET r == similar_objects(Db, ent, same_type, official)
    IN  /\ last = NoOp
        /\ \E o \in r.outs :
              last' = [NoOp EXCEPT !.op = "similar_objects", !.ent = ent,
                                   !.same_type = same_type,
                                   !.official = official,
                                   !.res = Result(r.err), !.out = o]
        /\ UNCHANGED <<stems, tags, staff, h, procs>>

EntA == [ct |-> 1, id |-> 1]
EntB == [ct |-> 1, id |-> 2]
EntC == [ct |-> 2, id |-> 1]
SimEntities == {EntA, EntB, EntC}

\* who tags what in SpecSim: a1 is staff, a2 is not
SimArgs ==
    {<<EntA, "red", "a1">>, <<EntA, "blue", "a1">>, <<EntA, "blue", "a2">>,
     <<EntB, "blue", "a1">>, <<EntB, "green", "a1">>, <<EntB, "green", "a2">>,
     <<EntC, "green", "a1">>, <<EntC, "red", "a2">>, <<EntC, "blue", "a1">>}

NextSim ==
    \/ \E x \in SimArgs :
          SimTag(x[1], <<x[2]>>, [kind |-> "int", v |-> "en"],
                 [kind |-> "model", ref |-> x[3]])
    \/ \E e \in SimEntities, st \in BOOLEAN, o \in BOOLEAN : CallSimilar(e, st, o)
    \/ Proceed

SpecSim == Init /\ [][NextSim]_vars

-----------------------------------------------------------------------------
(* SpecParse: the default-tags text of a Taggable, parsed, joined and       *)
(* parsed again as Taggable.save and the tag call it makes do                *)

\* ", ".join(names), the names given as their atoms
RECURSIVE join(_)
join(names) ==
    IF names = <<>> THEN <<>>
    ELSE IF Len(names) = 1 THEN names[1]
    ELSE names[1] \o <<Comma, Space>> \o join(Tail(names))

\* Taggable.save: self._default_tags = ", ".join(parse_tag_input(
\* self._default_tags)), as a text
joined_default_tags(text) == join(Distinct(Fields(text), {}))

Atoms == {"x", "y", Comma, Space, Quote}
AllTexts == UNION {[1..n -> Atoms] : n \in 0..MaxTextLen}

\* the text is normalised as save normalises it, and the result is parsed
\* as the tag call parses it
ParseJoined(text) ==
    /\ last = NoOp
    /\ last' = [NoOp EXCEPT !.op = "parse", !.text = text,
                            !.names = parse_tag_input(text),
                            !.out = parse_tag_input(joined_default_tags(text)),
                            !.res = "ok"]
    /\ UNCHANGED <<stems, tags, staff, h, procs>>

NextParse ==
    \/ \E t \in AllTexts : ParseJoined(t)
    \/ Proceed

SpecParse == Init /\ [][NextParse]_vars

-----------------------------------------------------------------------------
(* SpecDefault: entities with default tags are saved, among tag calls       *)

\* a language field that holds the name of a language
NameLang == [kind |-> "name", v |-> "pl"]

\* Taggable._get_default_tags_author: the field when it holds an author
_get_default_tags_author(field) ==
    IF field.kind = "model" THEN field.ref ELSE Unresolvable

\* Taggable._get_default_tags_language: the field when it holds an int, or
\* the id of the language it names
_get_default_tags_language(field) ==
    IF field.kind \in {"int", "name"} THEN field.v ELSE Unresolvable

\* Taggable.save() of the entity ent with the text in its _default_tags;
\* new when the entity has no pk yet: [err, db]
Taggable_save(db, ent, text, language, author, new, st) ==
    LET tag_author == _get_default_tags_author(author)
        tag_lang == _get_default_tags_language(language)
        default_tags == joined_default_tags(text)
    IN  IF tag_author = Unresolvable \/ tag_lang = Unresolvable
        THEN [err |-> "ImproperlyConfigured", db |-> db]
        ELSE LET u == IF new THEN db
                      ELSE untag_all(db, ent, NoName, NoLang, Author(tag_author)).db
             IN  tag(u, ent, default_tags, [kind |-> "int", v |-> tag_lang],
                     Author(tag_author), st)

\* ent._default_tags = text; ent.save()
SaveTaggable(ent, text, language, author, new) ==
    LET r == Taggable_save(Db, ent, text, language, author, new, staff)
    IN  /\ last = NoOp
        /\ new => \A t \in tags : t.ent # ent
        /\ Store(r.db)
        /\ h' = Held(h, r.db)
        /\ last' = [NoOp EXCEPT !.op = "Taggable.save", !.ent = ent,
                                !.nk = "text", !.text = text,
                                !.names = parse_tag_input(text),
                                !.language = _get_default_tags_language(language),
                                !.author = _get_default_tags_author(author),
                                !.chg = ~new,
                                !.res = Result(r.err)]
        /\ UNCHANGED <<staff, procs>>

\* default-tags texts: "", "x", "x,y", "x y", "x y," and "\"x,y\""
DefaultTexts ==
    {<<>>, <<"x">>, <<"x", Comma, "y">>, <<"x", Space, "y">>,
     <<"x", Space, "y", Comma>>, <<Quote, "x", Comma, "y", Quote>>}

NextDefault ==
    \/ \E e \in Entities, t \in DefaultTexts, new \in BOOLEAN,
          l \in {IntLang, NameLang, OtherLang}, a \in {Author("a1"), OtherAuthor} :
          SaveTaggable(e, t, l, a, new)
    \/ \E e \in Entities, n \in Names, a \in Authors :
          CallTag(e, <<n>>, IntLang, Author(a))
    \/ Proceed

SpecDefault == Init /\ [][NextDefault]_vars

-----------------------------------------------------------------------------
(* SpecGone: a client keeps a Tag instance while untag calls on its entity  *)
(* delete the row behind it, and saves the instance afterwards              *)

\* ent.untag(name, language, author) by another client: the first client
\* keeps its instance whatever becomes of the row
UntagBehind(ent, name, language, author) ==
    LET r == untag(Db, ent, name, language, author)
    IN  /\ last = NoOp
        /\ Store(r.db)
        /\ h' = h
        /\ last' = [NoOp EXCEPT !.op = "untag", !.ent = ent, !.nk = "text",
                                !.names = parse_tag_input(name),
                                !.language = SuppliedLang(language),
                                !.author = SuppliedAuthor(author),
                                !.res = Result(r.err)]
        /\ UNCHANGED <<staff, procs>>

NextGone ==
    \/ \E n \in Names : CallTag(HeldEnt, <<n>>, IntLang, Author("a1"))
    \/ \E pk \in 1..MaxTags : GetTag(pk)
    \/ \E n \in Names : UntagBehind(HeldEnt, <<n>>, IntLang, Author("a1"))
    \/ \E k \in HeldKeys : SaveHeld(k[1], k[2], h.author, h.official)
    \/ Proceed

SpecGone == Init /\ [][NextGone]_vars

-----------------------------------------------------------------------------
(* SpecRemove: Tag rows removed by untag, by untag_all and by the deletion  *)
(* of the tagged entity                                                      *)

\* the Tag rows of the entity go with it, and no handler is told
TaggableBase_delete_unsignalled(db, ent) ==
    [err |-> "", db |-> [db EXCEPT !.tags = {t \in @ : t.ent # ent}]]

\* Model.delete() of a tagged entity: the GenericRelation tags takes the Tag
\* rows of the entity along, and post_delete fires for each: [err, db]
TaggableBase_delete(db, ent) ==
    LET m == {t \in db.tags : t.ent = ent}
    IN  [err |-> "", db |-> post_delete_each([db EXCEPT !.tags = @ \ m], m)]

\* ent.delete()
DeleteEntity(ent) ==
    LET r == TaggableBase_delete(Db, ent)
    IN  /\ last = NoOp
        /\ Store(r.db)
        /\ h' = Held(h, r.db)
        /\ last' = [NoOp EXCEPT !.op = "Model.delete", !.ent = ent,
                                !.res = Result(r.err),
                                !.removed = Cardinality(tags \ r.db.tags)]
        /\ UNCHANGED <<staff, procs>>

RemoveTexts == {<<"x">>, <<"y">>, <<"x", Comma, "y">>}

NextRemove ==
    \/ \E e \in Entities, t \in RemoveTexts, a \in Authors :
          CallTag(e, t, IntLang, Author(a))
    \/ \E e \in Entities, t \in RemoveTexts, a \in Authors :
          CallUntag(e, t, IntLang, Author(a))
    \/ \E e \in Entities, n \in {NoName, Text(<<"x">>)},
          a \in {NoAuthor, Author("a2")} :
          CallUntagAll(e, n, NoLang, a)
    \/ \E e \in Entities : DeleteEntity(e)
    \/ Proceed

SpecRemove == Init /\ [][NextRemove]_vars

-----------------------------------------------------------------------------
(* Claims on whole operations *)

TagsOf(ts, s) == {t \in ts : t.stem = s.pk}
Resolved(x) == x \notin {None, Unresolvable}
KeyStems(ss, name, language) ==
    {s \in ss : s.name = name /\ s.language = language}

\* C1: between operations, the tag_count of every TagStem row is the number
\* of Tag rows whose stem it is.
CountMatchesLiveTags ==
    \A s \in stems : s.tag_count = Cardinality(TagsOf(tags, s))

\* C4: ent.tag(T, language, author) with an author and a language that
\* resolve succeeds, removes no Tag, creates exactly one Tag on ent for each
\* name of parse(T), in that language and by that author and official when
\* the author is staff; the stem of each (name, language) is the one stem of
\* that key, its tag_count one more than before (1 when it did not exist);
\* every other stem is as before.
TagCreatesOnePerName ==
    [][(last'.op = "tag" /\ Resolved(last'.author) /\ Resolved(last'.language)) =>
        LET e == last'.ent
            l == last'.language
            a == last'.author
            ns == Range(last'.names)
            new == tags' \ tags
        IN  /\ last'.res = "ok"
            /\ tags \subseteq tags'
            /\ Cardinality(new) = Cardinality(ns)
            /\ \A t \in new : t.ent = e /\ t.language = l /\ t.author = a
                              /\ t.name \in ns /\ (a \in staff => t.official)
            /\ \A n \in ns :
                 LET old == KeyStems(stems, n, l)
                     now == KeyStems(stems', n, l)
                 IN  /\ Cardinality({t \in new : t.name = n}) = 1
                     /\ Cardinality(now) = 1
                     /\ \A s \in now :
                          /\ \A t \in new : t.name = n => t.stem = s.pk
                          /\ IF old = {} THEN s.tag_count = 1
                             ELSE \E o \in old : o.pk = s.pk
                                                 /\ s.tag_count = o.tag_count + 1
            /\ \A s \in stems \cup stems' :
                 (s.name \notin ns \/ s.language # l) => s \in stems \cap stems'
      ]_vars

\* C4 witness: a staff author has tagged an entity with two names at once.
TagTwoNamesByStaff ==
    /\ last.op = "tag" /\ last.res = "ok" /\ Len(last.names) = 2
    /\ last.author \in staff
    /\ Cardinality({t \in tags : t.ent = last.ent /\ t.official}) = 2

\* the Tag rows of ent that match every filter untag_all was given
MatchSupplied(ts, c) ==
    {t \in ts : /\ t.ent = c.ent
                /\ c.nk # "none" => t.name \in Range(c.names)
                /\ c.language # None => t.language = c.language
                /\ c.author # None => t.author = c.author}

\* the stems after the Tag rows del are removed, each decrementing its stem
StemsLess(ss, del) ==
    {[s EXCEPT !.tag_count = @ - Cardinality(TagsOf(del, s))] :
        s \in {r \in ss : r.tag_count > Cardinality(TagsOf(del, r))}}

\* C5: ent.untag_all(name, language, author) deletes exactly the Tags of ent
\* that match every filter supplied, decrements the stem of each (a stem that
\* reaches zero is deleted), and leaves every other Tag as it was.
UntagAllDeletesMatching ==
    [][last'.op = "untag_all" =>
        LET del == MatchSupplied(tags, last')
        IN  /\ last'.res = "ok"
            /\ tags' = tags \ del
            /\ stems' = StemsLess(stems, del)
      ]_vars

\* C6: ent.untag(T, language, author) with an author and a language that
\* resolve succeeds whatever Tags are stored; it removes only Tags of ent
\* with that language and author and a name of parse(T), leaves none of
\* them, and changes nothing when there was none.
UntagNeverFails ==
    [][(last'.op = "untag" /\ Resolved(last'.author) /\ Resolved(last'.language)) =>
        LET del == MatchSupplied(tags, last')
        IN  /\ last'.res = "ok"
            /\ tags' = tags \ del
            /\ del = {} => stems' = stems
      ]_vars

\* C7: tag and untag with an author or a language that does not resolve fail
\* with ValueError and leave both tables as they were.
UnresolvedHasNoEffect ==
    [][(last'.op \in {"tag", "untag"}
        /\ ~(Resolved(last'.author) /\ Resolved(last'.language))) =>
        /\ last'.res = "ValueError"
        /\ tags' = tags
        /\ stems' = stems
      ]_vars

\* C7 witness: tag was called with two names, an author that resolves and a
\* language that does not, on a store that holds tags.
TagWithUnresolvedLanguage ==
    /\ last.op = "tag" /\ last.res = "ValueError" /\ Len(last.names) = 2
    /\ Resolved(last.author) /\ last.language = Unresolvable
    /\ tags # {}

\* C8: after a Tag.save the Tag is official exactly when its author is
\* staff.
OfficialIsStaff ==
    (last.op = "Tag.save" /\ last.res = "ok") =>
        \A t \in tags : t.pk = last.pk => (t.official <=> t.author \in staff)

\* C9: the stem of every Tag row is a TagStem row with the name and the
\* language of the Tag.
StemMatchesKey ==
    \A t \in tags :
        \E s \in stems : s.pk = t.stem /\ s.name = t.name /\ s.language = t.language

\* C9 witness: a held Tag was saved under another name or language while
\* another Tag kept its stem.
SavedUnderNewKey ==
    /\ last.op = "Tag.save" /\ last.res = "ok" /\ last.chg
    /\ \E t \in tags : t.pk = last.pk /\ t.name = last.names[1]
                       /\ t.language = last.language
    /\ Cardinality(tags) = 2

\* every process is through with its operation
AllDone == \A p \in DOMAIN procs : procs[p].pc = "done"

\* C2: once every process has completed its save or delete, the tag_count
\* of every TagStem row is the number of Tag rows whose stem it is: no
\* increment or decrement was lost to the interleaving.
NoLostCount ==
    AllDone => \A s \in stems : s.tag_count = Cardinality(TagsOf(tags, s))

\* C3: no two TagStem rows have the same name and language.
OneStemPerKey ==
    \A s1, s2 \in stems :
        (s1.name = s2.name /\ s1.language = s2.language) => s1.pk = s2.pk

\* the (name, language) keys of the Tags of ent that count under the flag
KeysOf(ent, official) ==
    {<<t.name, t.language>> : t \in {r \in tags : r.ent = ent /\ (official => r.official)}}

\* the tagged entities similar_objects searches, ent itself left out
Universe(ent, same_type, official) ==
    {t.ent : t \in {r \in tags : /\ official => r.official
                                 /\ same_type => r.ent.ct = ent.ct}} \ {ent}

SymDiff(a, b) == (a \ b) \cup (b \ a)

\* the list out holds exactly the entities of the universe that share a stem
\* with ent, each once and with the size of the symmetric difference
ListsShared(out, ent, same_type, official) ==
    LET S0 == KeysOf(ent, official)
        sim == {e \in Universe(ent, same_type, official) :
                  KeysOf(e, official) \cap S0 # {}}
    IN  /\ Len(out) = Cardinality(sim)
        /\ Range(out) = {<<e, Cardinality(SymDiff(KeysOf(e, official), S0))>> : e \in sim}

\* C10: E0.similar_objects() returns a list that holds exactly the other
\* tagged entities of the universe whose stem set shares a stem with that of
\* E0, each with the size of the symmetric difference of the two stem sets.
SimilarListsShared ==
    last.op = "similar_objects" =>
        /\ last.res = "ok"
        /\ ListsShared(last.out, last.ent, last.same_type, last.official)

\* similar_objects called on an entity that has tags in the universe returns
\* the list C10 describes
SimilarOfTaggedListsShared ==
    (last.op = "similar_objects" /\ KeysOf(last.ent, last.official) # {}) =>
        /\ last.res = "ok"
        /\ ListsShared(last.out, last.ent, last.same_type, last.official)

\* stem sets {red, blue} and {blue, green} at distance 2
RedBlueAndBlueGreen ==
    /\ last.op = "similar_objects" /\ last.res = "ok"
    /\ KeysOf(last.ent, FALSE) = {<<"red", "en">>, <<"blue", "en">>}
    /\ \E i \in DOMAIN last.out :
          /\ KeysOf(last.out[i][1], FALSE) = {<<"blue", "en">>, <<"green", "en">>}
          /\ last.out[i][2] = 2

\* C11: the list similar_objects returns is in order of non-decreasing
\* distance, and every other entity of the universe whose stem set equals the
\* non-empty stem set of the target is listed with distance 0, before every
\* entity of positive distance.
SimilarSortedByDistance ==
    last.op = "similar_objects" =>
        LET out == last.out
            S0 == KeysOf(last.ent, last.official)
        IN  /\ \A i, j \in DOMAIN out : i < j => out[i][2] <= out[j][2]
            /\ S0 # {} =>
                 \A e \in Universe(last.ent, last.same_type, last.official) :
                    KeysOf(e, last.official) = S0 =>
                       \E i \in DOMAIN out :
                          /\ out[i] = <<e, 0>>
                          /\ \A j \in DOMAIN out : out[j][2] > 0 => i < j

\* C11 witness: the returned list holds an entity with the stem set of the
\* target and, after it, an entity at a positive distance.
EqualSetBeforeOther ==
    /\ last.op = "similar_objects" /\ last.res = "ok"
    /\ \E i, j \in DOMAIN last.out :
          /\ KeysOf(last.out[i][1], last.official) = KeysOf(last.ent, last.official)
          /\ last.out[i][2] = 0
          /\ last.out[j][2] > 0

\* C12: similar_objects does not fail; when no other entity of the universe
\* shares a stem with the target, as when the target has no tag in the
\* universe, it returns the empty list.
SimilarNeverFails ==
    last.op = "similar_objects" =>
        /\ last.res = "ok"
        /\ (\A e \in Universe(last.ent, last.same_type, last.official) :
               KeysOf(e, last.official) \cap KeysOf(last.ent, last.official) = {})
           => last.out = <<>>

\* the Tags of entity e by author a
TagsBy(ts, e, a) == {t \in ts : t.ent = e /\ t.author = a}

\* C13: after a successful save of a Taggable entity the Tags on it by the
\* resolved default-tags author are one Tag for each name of the parse of the
\* text supplied, in the resolved language, and no other; every Tag by
\* another author or on another entity is as before.
SaveSyncsDefaultTags ==
    [][(last'.op = "Taggable.save" /\ last'.res = "ok") =>
        LET mine == TagsBy(tags', last'.ent, last'.author)
            ns == Range(last'.names)
        IN  /\ {t.name : t \in mine} = ns
            /\ \A t \in mine : t.language = last'.language
            /\ \A n \in ns : Cardinality({t \in mine : t.name = n}) = 1
            /\ tags' \ mine = tags \ TagsBy(tags, last'.ent, last'.author)
      ]_vars

\* C14: the names parsed from the canonical join of parse(T) are the names
\* of parse(T).
ReparseKeepsNames ==
    last.op = "parse" => Range(last.out) = Range(last.names)

\* C15: a save of an existing Tag under another (name, language) key keeps
\* the Tag, now with the stem of the new key; the old stem has one count
\* less, or is gone when its count was 1; the new stem has one count more,
\* or is created with count 1; every other stem and Tag is as before.
SaveMovesBetweenStems ==
    [][(last'.op = "Tag.save" /\ last'.chg /\ last'.res = "ok"
        /\ \E t \in tags : t.pk = last'.pk) =>
        LET t0 == CHOOSE t \in tags : t.pk = last'.pk
            n == last'.names[1]
            l == last'.language
            old == {s \in stems : s.pk = t0.stem}
            new == KeyStems(stems, n, l)
        IN  /\ \E t1 \in tags' :
                 /\ t1.pk = t0.pk /\ t1.name = n /\ t1.language = l
                 /\ \E s \in KeyStems(stems', n, l) : t1.stem = s.pk
                 /\ tags' \ {t1} = tags \ {t0}
            /\ \A s \in old :
                 IF s.tag_count <= 1
                 THEN \A r \in stems' : r.pk # s.pk
                 ELSE [s EXCEPT !.tag_count = @ - 1] \in stems'
            /\ IF new = {}
               THEN \E s \in KeyStems(stems', n, l) : s.tag_count = 1
               ELSE \A s \in new : [s EXCEPT !.tag_count = @ + 1] \in stems'
            /\ \A s \in stems \cup stems' :
                 (s.pk # t0.stem /\ ~(s.name = n /\ s.language = l))
                    => s \in stems \cap stems'
      ]_vars

\* C16: between operations, a failed Tag.save included, every TagStem row
\* has a tag_count of at least 1.
NoZeroCount ==
    \A s \in stems : s.tag_count >= 1

RefBefore(a, b) == a.ct < b.ct \/ (a.ct = b.ct /\ a.id < b.id)

\* C18: in the list similar_objects returns, entities at the same distance
\* stand in the order of their references, so that the list is a function of
\* the stored state.
SimilarTiesByReference ==
    last.op = "similar_objects" =>
        \A i, j \in DOMAIN last.out :
            (i < j /\ last.out[i][2] = last.out[j][2])
                => RefBefore(last.out[i][1], last.out[j][1])

\* C19: no two Tag rows have the same name, language, author and entity.
OneTagPerKey ==
    \A t1, t2 \in tags :
        (t1.name = t2.name /\ t1.language = t2.language
         /\ t1.author = t2.author /\ t1.ent = t2.ent) => t1.pk = t2.pk

\* C20: a save of a Tag that has a row, with its name and language as they
\* are, succeeds and leaves the TagStem table as it was and the Tag with the
\* stem it had, every time it is repeated.
ResaveKeepsStems ==
    [][(last'.op = "Tag.save" /\ ~last'.chg /\ \E t \in tags : t.pk = last'.pk) =>
        /\ last'.res = "ok"
        /\ stems' = stems
        /\ \A t \in tags : t.pk = last'.pk =>
              \E t1 \in tags' : t1.pk = t.pk /\ t1.stem = t.stem
        /\ \A t \in tags \cup tags' : t.pk # last'.pk => t \in tags \cap tags'
      ]_vars

\* C20 witness: a held Tag was saved again under its key while the stem
\* object cached on it had a count the row no longer has.
ResavedWithStaleStem ==
    /\ last.op = "Tag.save" /\ ~last.chg /\ last.res = "ok"
    /\ h.pk = last.pk /\ h.stem.k = "obj"
    /\ \E s \in stems : s.pk = h.stem.s.pk /\ s.tag_count # h.stem.s.tag_count

====
